---- MODULE Spec2Model ----
(***************************************************************************)
(* Model of LspClientCreator (monaco-ov): the bridge between three monaco  *)
(* editors (primary "ov", schema "yaml", generated output) and the         *)
(* openVALIDATION language server reached over a reconnecting web socket.  *)
(*                                                                         *)
(* A send is recorded where the bridge calls sendNotification on the       *)
(* connection it holds in currentConnection; a write where it calls        *)
(* ContentManager.setValue.  Every handler runs to completion (one action  *)
(* per handler); `steps` lists, in program order, what the handler that    *)
(* ran last did, and `ev` is the event that handler was given.             *)
(***************************************************************************)
EXTENDS Integers, Sequences, FiniteSets, TLC

\* ---------------------------------------------------------------- bounds
\* number of socket connections (sessions) a behaviour may open
MaxConn == 2
\* longest list of classifier entries in a semantic-highlighting payload
MaxEntries == 2
\* longest page path, in tokens
MaxPathLen == 4

\* ---------------------------------------------------------- input domains
Conns == 1..MaxConn
Texts == {"t1", "t2"}
Uris == {"u1", "u2"}
Keys == {"culture", "language"}
Implementations == {"i1", "i2"}
\* language names as the server spells them, one character per element
Languages == {<<"J", "a">>, <<"j", "a">>, <<"C", "S">>}
\* (pattern, class) entries the server may send; one pattern is empty
ClassifierEntries == {<<"", "k1">>, <<"p1", "k1">>, <<"p2", "k2">>}
Keywords == {"KOMMENTAR", "COMMENT"}

\* the option values of the two select controls of the page
Options(k) == IF k = "culture" THEN <<"de", "en">> ELSE <<"Java", "Node">>
\* values the shared store may hold when the bridge is created
StoredAtStart(k) == IF k = "culture" THEN {"en", "fr"} ELSE {"Node", "Rust"}

VARIABLES
    nConn,              \* connections opened so far by the web socket
    status,             \* per connection: "none", "starting", "ready", "closed"
    starts,             \* per connection: how often a client was started on it
    disposed,           \* per connection: how often its disposable was disposed
    currentConnection,  \* LspClientCreator.currentConnection (0: undefined)
    handlers,           \* per connection: the notification methods with a handler
    docListeners,       \* workspace document-change listeners, by registering session
    onchange,           \* per select control: session that installed onchange (0: none)
    schemaText,         \* schemaEditor.getValue()
    ovText,             \* text of the primary document
    ovUri,              \* ovEditor.getModel().uri
    output,             \* output editor: [hasModel, text, lang]
    store,              \* ContentManager: Schema, Code, Culture, Language
    dom,                \* per select control: [present, sel]
    tokensProvider,     \* tokens provider installed for "ov"
    langConf,           \* language configuration of "ov"
    ev,                 \* the event the last handler was given
    steps,              \* what the last handler did, in program order
    sentOn,             \* per connection: the methods ever sent on it
    lastSent,           \* per option: connection and value of its latest send
    location,           \* the page's location: [protocol, pathname]
    url                 \* the url the web socket was created with

vars == <<nConn, status, starts, disposed, currentConnection, handlers,
          docListeners, onchange, schemaText, ovText, ovUri, output, store,
          dom, tokensProvider, langConf, ev, steps, sentOn, lastSent, location, url>>

lifecycleVars == <<nConn, status, starts, disposed>>
bridgeVars == <<currentConnection, handlers, docListeners, onchange>>
editorVars == <<schemaText, ovText, ovUri>>
inboundVars == <<output, tokensProvider, langConf>>
pageVars == <<location, url>>

\* ------------------------------------------------------------ vocabulary
\* members of NotificationEnum (ov-language-server-types)
SemanticHighlighting == "SemanticHighlighting"
GeneratedCode == "GeneratedCode"
CommentKeywordChanged == "CommentKeywordChanged"
SchemaChanged == "SchemaChanged"
Method(k) == IF k = "culture" THEN "CultureChanged" ELSE "LanguageChanged"
StoreKey(k) == IF k = "culture" THEN "Culture" ELSE "Language"

Send(conn, name, value, uri) ==
    [act |-> "send", conn |-> conn, name |-> name, value |-> value, uri |-> uri]
Write(key, value) ==
    [act |-> "write", conn |-> 0, name |-> key, value |-> value, uri |-> ""]
Register(conn, name) ==
    [act |-> "register", conn |-> conn, name |-> name, value |-> "", uri |-> ""]
Fault(conn, name) ==
    [act |-> "fault", conn |-> conn, name |-> name, value |-> "", uri |-> ""]

Sends(s) == SelectSeq(s, LAMBDA x : x.act = "send")
Writes(s) == SelectSeq(s, LAMBDA x : x.act = "write")

NoEvent == [kind |-> "none", conn |-> 0, fired |-> <<>>, text |-> "",
            json |-> TRUE, hasLanguage |-> FALSE, language |-> <<>>,
            implementation |-> "", entries |-> <<>>]
Event(kind, conn, fired, text) ==
    [NoEvent EXCEPT !.kind = kind, !.conn = conn, !.fired = fired, !.text = text]

\* ContentManager.setValue for every write of a handler, in order
RECURSIVE ApplyWrites(_, _)
ApplyWrites(st, s) ==
    IF s = <<>> THEN st
    ELSE ApplyWrites(IF Head(s).act = "write"
                     THEN [st EXCEPT ![Head(s).name] = Head(s).value]
                     ELSE st,
                     Tail(s))

\* the latest send of each option's notification, after the steps s
NeverSent == [conn |-> 0, value |-> ""]
RECURSIVE RecordLast(_, _)
RecordLast(ls, s) ==
    IF s = <<>> THEN ls
    ELSE RecordLast([k \in Keys |->
                        IF Head(s).act = "send" /\ Head(s).name = Method(k)
                        THEN [conn |-> Head(s).conn, value |-> Head(s).value]
                        ELSE ls[k]],
                    Tail(s))

RecordSends(so, s) ==
    [c \in Conns |->
        so[c] \cup {s[i].name : i \in {j \in 1..Len(s) : s[j].act = "send" /\ s[j].conn = c}}]

\* ------------------------------------------------------------ transport
\* process.env.PORT || 3010
PORT == 3010

\* a path is a sequence of tokens: "/", a name, or a scheme ending in ":"
PathTokens == {"/", "a", "http:"}
RECURSIVE PathsOfLen(_)
PathsOfLen(n) ==
    IF n = 1 THEN {<<"/">>}
    ELSE {Append(q, t) : q \in PathsOfLen(n - 1), t \in PathTokens}
\* location.pathname: starts with "/"
PagePaths == UNION {PathsOfLen(n) : n \in 1..MaxPathLen}
Locations == [protocol : {"http:", "https:", "file:"}, pathname : PagePaths]

NoUrl == [protocol |-> "", host |-> "", port |-> 0, path |-> <<>>]

\* normalize-url on the path: a run of slashes becomes one slash, unless the
\* run follows a scheme ("http://" inside a path is kept); no trailing slash
RECURSIVE CollapseSlashes(_, _)
CollapseSlashes(out, rest) ==
    IF rest = <<>> THEN out
    ELSE IF /\ Head(rest) = "/"
            /\ Len(out) >= 1 /\ out[Len(out)] = "/"
            /\ ~(Len(out) >= 2 /\ out[Len(out) - 1] = "http:")
         THEN CollapseSlashes(out, Tail(rest))
         ELSE CollapseSlashes(Append(out, Head(rest)), Tail(rest))

NormalizeUrl(u) ==
    LET collapsed == CollapseSlashes(<<>>, u.path) IN
    [u EXCEPT !.path = IF Len(collapsed) > 1 /\ collapsed[Len(collapsed)] = "/"
                       THEN SubSeq(collapsed, 1, Len(collapsed) - 1)
                       ELSE collapsed]

\* a createUrl that returns the template string as it is
CreateUrlRaw(loc, path) ==
    [protocol |-> IF loc.protocol = "https:" THEN "wss" ELSE "ws",
     host |-> "localhost", port |-> PORT, path |-> loc.pathname \o path]

\* createUrl: `${protocol}://localhost:${PORT}${location.pathname}${path}`,
\* normalized
CreateUrl(loc, path) ==
    NormalizeUrl([protocol |-> IF loc.protocol = "https:" THEN "wss" ELSE "ws",
                  host |-> "localhost", port |-> PORT,
                  path |-> loc.pathname \o path])

\* the service path createLspClient passes to createUrl
OvLanguagePath == <<"/", "ovLanguage">>

\* createLspClient up to the creation of the web socket
CreateWebSocket ==
    /\ url = NoUrl
    /\ url' = CreateUrl(location, OvLanguagePath)
    /\ UNCHANGED <<lifecycleVars, bridgeVars, editorVars, inboundVars, store,
                   dom, ev, steps, sentOn, lastSent,
                   location>>

\* ------------------------------------------------------ outbound senders
\* a sender that sends the schema last saved in the shared store
SendSchemaFromStore(conn, schemaValue, uri) ==
    <<Send(conn, SchemaChanged, store["Schema"], uri)>>

\* sendSchemaChangedNotification: the schema editor's value and the primary
\* document's uri, sent on the held connection
SendSchemaChangedNotification(conn, schemaValue, uri) ==
    <<Send(conn, SchemaChanged, schemaValue, uri)>>

\* index of the first option whose value equals v (0: none), the loop with break
FirstMatch(opts, v) ==
    IF \E i \in 1..Len(opts) : opts[i] = v
    THEN CHOOSE i \in 1..Len(opts) : opts[i] = v /\ \A j \in 1..(i - 1) : opts[j] # v
    ELSE 0

\* sendLanguageConfiguration, one control: the option equal to the stored
\* value becomes the selected one
ReflectOption(k, box, stored) ==
    IF box.present /\ FirstMatch(Options(k), stored) # 0
    THEN [box EXCEPT !.sel = FirstMatch(Options(k), stored)]
    ELSE box

\* a sender that sends the value the control shows, not the stored one
SendOptionSelected(k, conn, uri, box, stored) ==
    IF box.present THEN <<Send(conn, Method(k), Options(k)[box.sel], uri)>> ELSE <<>>

\* sendLanguageConfiguration, one control: the send sits inside the
\* `!= null` guard of the control
SendOption(k, conn, uri, box, stored) ==
    IF box.present THEN <<Send(conn, Method(k), stored, uri)>> ELSE <<>>

SendLanguageConfiguration(conn, uri, d, st) ==
    SendOption("culture", conn, uri, d["culture"], st["Culture"])
    \o SendOption("language", conn, uri, d["language"], st["Language"])

\* setClickHandler: onchange is assigned on every control that is present
SetClickHandler(c, d, oc) ==
    [k \in Keys |-> IF d[k].present THEN c ELSE oc[k]]

ClickHandlerSteps(c, d) ==
    (IF d["culture"].present THEN <<Register(c, "onchange:culture")>> ELSE <<>>)
    \o (IF d["language"].present THEN <<Register(c, "onchange:language")>> ELSE <<>>)

\* a connection provider that registers the listeners before it sends
GetStepsRegisterFirst(c) ==
    <<Register(c, SemanticHighlighting),
      Register(c, GeneratedCode),
      Register(c, "onDidChangeTextDocument"),
      Register(c, CommentKeywordChanged)>>
    \o ClickHandlerSteps(c, dom)
    \o SendSchemaChangedNotification(c, schemaText, ovUri)
    \o SendLanguageConfiguration(c, ovUri, dom, store)

\* the steps of connectionProvider.get, in program order
GetSteps(c) ==
    SendSchemaChangedNotification(c, schemaText, ovUri)
    \o SendLanguageConfiguration(c, ovUri, dom, store)
    \o <<Register(c, SemanticHighlighting),
         Register(c, GeneratedCode),
         Register(c, "onDidChangeTextDocument"),
         Register(c, CommentKeywordChanged)>>
    \o ClickHandlerSteps(c, dom)

\* connectionProvider.get for connection c: hold the connection, send the
\* initial state, register every listener
ConnectionProviderGet(c) ==
    /\ currentConnection' = c
    /\ steps' = GetSteps(c)
    /\ dom' = [k \in Keys |-> ReflectOption(k, dom[k], store[StoreKey(k)])]
    /\ handlers' = [handlers EXCEPT ![c] =
           {steps'[i].name : i \in {j \in 1..Len(steps') :
               steps'[j].act = "register"
               /\ steps'[j].name \in {SemanticHighlighting, GeneratedCode,
                                      CommentKeywordChanged}}}]
    /\ docListeners' = docListeners
           \o SelectSeq(<<c>>, LAMBDA x :
                  \E i \in 1..Len(steps') : steps'[i] = Register(c, "onDidChangeTextDocument"))
    /\ onchange' = SetClickHandler(c, dom, onchange)
    /\ sentOn' = RecordSends(sentOn, steps')
    /\ lastSent' = RecordLast(lastSent, steps')

\* --------------------------------------------------- session lifecycle
\* errorHandler.closed of the client options
ErrorHandlerClosedRestart == "Restart"
ErrorHandlerClosed == "DoNotRestart"

Live(c) == status[c] \in {"starting", "ready"}

\* listen.onConnection: the socket opened; create the client, start it (the
\* connection provider runs inside start) and hook dispose to onClose
OnConnection ==
    /\ nConn < MaxConn
    /\ \A c \in Conns : ~Live(c)
    /\ LET c == nConn + 1 IN
        /\ nConn' = c
        /\ status' = [status EXCEPT ![c] = "starting"]
        /\ starts' = [starts EXCEPT ![c] = @ + 1]
        /\ ConnectionProviderGet(c)
        /\ UNCHANGED pageVars
        /\ ev' = Event("connection", c, <<>>, "")
    /\ UNCHANGED <<disposed, editorVars, inboundVars, store>>

\* languageClient.onReady resolves
OnReady(c) ==
    /\ status[c] = "starting"
    /\ status' = [status EXCEPT ![c] = "ready"]
    /\ UNCHANGED pageVars
    /\ ev' = Event("ready", c, <<>>, "")
    /\ steps' = <<>>
    /\ UNCHANGED <<nConn, starts, disposed, bridgeVars, editorVars, inboundVars,
                   store, dom, sentOn, lastSent>>

\* the connection's close event: the client asks errorHandler.closed whether
\* to restart, then the onClose callback of onConnection disposes the client
OnClose(c) ==
    /\ Live(c)
    /\ status' = [status EXCEPT ![c] = "closed"]
    /\ disposed' = [disposed EXCEPT ![c] = @ + 1]
    /\ UNCHANGED pageVars
    /\ ev' = Event("close", c, <<>>, "")
    /\ IF ErrorHandlerClosed = "Restart"
       THEN /\ starts' = [starts EXCEPT ![c] = @ + 1]
            /\ ConnectionProviderGet(c)
       ELSE /\ steps' = <<>>
            /\ handlers' = [handlers EXCEPT ![c] = {}]
            /\ UNCHANGED <<starts, currentConnection, docListeners, onchange,
                           dom, sentOn, lastSent>>
    /\ UNCHANGED <<nConn, editorVars, inboundVars, store>>

\* ------------------------------------------------- document-change events
\* the listener of addDidChangeTextDocumentListener, for one changed document
DidChangeTextDocument(languageId, text, conn, schemaValue, uri) ==
    IF languageId = "yaml"
    THEN SendSchemaChangedNotification(conn, schemaValue, uri)
         \o <<Write("Schema", text)>>
    ELSE IF languageId = "ov"
    THEN <<Write("Code", text)>>
    ELSE <<>>

\* every registered listener runs, in registration order
RECURSIVE FireDocListeners(_, _, _, _, _, _)
FireDocListeners(ls, languageId, text, conn, schemaValue, uri) ==
    IF ls = <<>> THEN <<>>
    ELSE DidChangeTextDocument(languageId, text, conn, schemaValue, uri)
         \o FireDocListeners(Tail(ls), languageId, text, conn, schemaValue, uri)

\* the user edits the schema surface
ChangeSchema(t) ==
    /\ t # schemaText
    /\ schemaText' = t
    /\ steps' = FireDocListeners(docListeners, "yaml", t, currentConnection, t, ovUri)
    /\ store' = ApplyWrites(store, steps')
    /\ sentOn' = RecordSends(sentOn, steps')
    /\ lastSent' = RecordLast(lastSent, steps')
    /\ UNCHANGED pageVars
    /\ ev' = Event("changeSchema", currentConnection, docListeners, t)
    /\ UNCHANGED <<lifecycleVars, bridgeVars, ovText, ovUri, inboundVars, dom>>

\* the user edits the primary surface
ChangeCode(t) ==
    /\ t # ovText
    /\ ovText' = t
    /\ steps' = FireDocListeners(docListeners, "ov", t, currentConnection,
                                 schemaText, ovUri)
    /\ store' = ApplyWrites(store, steps')
    /\ sentOn' = RecordSends(sentOn, steps')
    /\ lastSent' = RecordLast(lastSent, steps')
    /\ UNCHANGED pageVars
    /\ ev' = Event("changeCode", currentConnection, docListeners, t)
    /\ UNCHANGED <<lifecycleVars, bridgeVars, schemaText, ovUri, inboundVars, dom>>

\* the primary editor is given another model (another document uri)
SetPrimaryModel(u) ==
    /\ u # ovUri
    /\ ovUri' = u
    /\ steps' = <<>>
    /\ UNCHANGED pageVars
    /\ ev' = Event("setModel", 0, <<>>, u)
    /\ UNCHANGED <<lifecycleVars, bridgeVars, schemaText, ovText, inboundVars,
                   store, dom, sentOn, lastSent>>

\* --------------------------------------------------- select-control events
\* an onchange handler that forgets ContentManager.setValue
OnChangeSendOnly(k, selected, conn, uri) ==
    <<Send(conn, Method(k), selected, uri)>>

\* the onchange handler setClickHandler installs on control k
OnChange(k, selected, conn, uri) ==
    <<Write(StoreKey(k), selected), Send(conn, Method(k), selected, uri)>>

\* the user selects option i of control k; the change event fires
ChangeControl(k, i) ==
    /\ dom[k].present
    /\ i \in 1..Len(Options(k))
    /\ i # dom[k].sel
    /\ dom' = [dom EXCEPT ![k].sel = i]
    /\ steps' = IF onchange[k] # 0
                THEN OnChange(k, Options(k)[i], currentConnection, ovUri)
                ELSE <<>>
    /\ store' = ApplyWrites(store, steps')
    /\ sentOn' = RecordSends(sentOn, steps')
    /\ lastSent' = RecordLast(lastSent, steps')
    /\ UNCHANGED pageVars
    /\ ev' = Event("change:" \o k, currentConnection,
                   IF onchange[k] # 0 THEN <<onchange[k]>> ELSE <<>>,
                   Options(k)[i])
    /\ UNCHANGED <<lifecycleVars, bridgeVars, editorVars, inboundVars>>

\* ------------------------------------------------- inbound notifications
\* String.prototype.toLowerCase on the letters the language names use
LowerChar(ch) ==
    CASE ch = "J" -> "j"
      [] ch = "C" -> "c"
      [] ch = "S" -> "s"
      [] ch = "A" -> "a"
      [] OTHER -> ch
ToLowerCase(str) == [i \in 1..Len(str) |-> LowerChar(str[i])]

\* payloads of textDocument/generatedCode as they arrive: a string that is
\* JSON or not, the object with or without `language`
GeneratedCodeParams ==
    {[json |-> TRUE, hasLanguage |-> TRUE, language |-> l, implementation |-> i] :
        l \in Languages, i \in Implementations}
    \cup {[json |-> TRUE, hasLanguage |-> FALSE, language |-> <<>>, implementation |-> i] :
        i \in Implementations}
    \cup {[json |-> FALSE, hasLanguage |-> FALSE, language |-> <<>>, implementation |-> ""]}

\* a handler that passes `language` on without toLowerCase()
GeneratedCodeHandlerKeepCase(out, p) ==
    IF ~p.json \/ ~p.hasLanguage
    THEN [fault |-> TRUE, output |-> out]
    ELSE [fault |-> FALSE,
          output |-> IF out.hasModel
                     THEN [out EXCEPT !.text = p.implementation, !.lang = p.language]
                     ELSE out]

\* a handler that writes the output model before it reads `language`
GeneratedCodeHandlerWriteFirst(out, p) ==
    IF ~p.json
    THEN [fault |-> TRUE, output |-> out]
    ELSE [fault |-> ~p.hasLanguage,
          output |-> IF out.hasModel
                     THEN [out EXCEPT !.text = p.implementation,
                                      !.lang = IF p.hasLanguage
                                               THEN ToLowerCase(p.language)
                                               ELSE out.lang]
                     ELSE out]

\* the handler of addGeneratedCodeNotificationListener: JSON.parse, then
\* language.toLowerCase(), then the output model (if any) is rewritten
GeneratedCodeHandler(out, p) ==
    IF ~p.json \/ ~p.hasLanguage
    THEN [fault |-> TRUE, output |-> out]
    ELSE [fault |-> FALSE,
          output |-> IF out.hasModel
                     THEN [out EXCEPT !.text = p.implementation,
                                      !.lang = ToLowerCase(p.language)]
                     ELSE out]

OnGeneratedCode(c, p) ==
    /\ Live(c)
    /\ GeneratedCode \in handlers[c]
    /\ LET r == GeneratedCodeHandler(output, p) IN
        /\ output' = r.output
        /\ steps' = IF r.fault THEN <<Fault(c, GeneratedCode)>> ELSE <<>>
    /\ UNCHANGED pageVars
    /\ ev' = [Event(GeneratedCode, c, <<c>>, "") EXCEPT
                 !.json = p.json, !.hasLanguage = p.hasLanguage,
                 !.language = p.language, !.implementation = p.implementation]
    /\ UNCHANGED <<lifecycleVars, bridgeVars, editorVars, tokensProvider, langConf,
                   store, dom, sentOn, lastSent>>

\* lists of (pattern, class) entries of at most n elements
RECURSIVE EntryLists(_)
EntryLists(n) ==
    IF n = 0 THEN {<<>>}
    ELSE LET shorter == EntryLists(n - 1) IN
         shorter \cup {Append(l, e) : l \in shorter, e \in ClassifierEntries}

RegExp(source, flags) == [source |-> source, flags |-> flags]

\* a getRegEx that compiles every entry, the empty patterns too
GetRegExUnfiltered(stringList) ==
    [i \in 1..Len(stringList) |->
        <<RegExp(stringList[i][1], "g"), stringList[i][2]>>]

\* getRegEx: the entries with a truthy pattern, compiled, in their order
RECURSIVE GetRegEx(_)
GetRegEx(stringList) ==
    IF stringList = <<>> THEN <<>>
    ELSE (IF Head(stringList)[1] # ""
          THEN <<(<<RegExp(Head(stringList)[1], "g"), Head(stringList)[2]>>)>>
          ELSE <<>>)
         \o GetRegEx(Tail(stringList))

\* createTokenizationSupport: a new OvlTokenProvider over the compiled list
CreateTokenizationSupport(classifiers) == GetRegEx(classifiers)

\* the handler of addSemanticHighlightingNotificationListener: JSON.parse,
\* then setTokensProvider("ov", ...) replaces the installed provider
SemanticHighlightingHandler(provider, p) ==
    IF ~p.json
    THEN [fault |-> TRUE, provider |-> provider]
    ELSE [fault |-> FALSE, provider |-> CreateTokenizationSupport(p.entries)]

OnSemanticHighlighting(c, p) ==
    /\ Live(c)
    /\ SemanticHighlighting \in handlers[c]
    /\ LET r == SemanticHighlightingHandler(tokensProvider, p) IN
        /\ tokensProvider' = r.provider
        /\ steps' = IF r.fault THEN <<Fault(c, SemanticHighlighting)>> ELSE <<>>
    /\ UNCHANGED pageVars
    /\ ev' = [Event(SemanticHighlighting, c, <<c>>, "") EXCEPT
                 !.json = p.json, !.entries = p.entries]
    /\ UNCHANGED <<lifecycleVars, bridgeVars, editorVars, output, langConf,
                   store, dom, sentOn, lastSent>>

\* a handler whose configuration replaces the whole configuration of "ov"
CommentKeywordHandlerReplaceAll(conf, params) ==
    [lineComment |-> params, brackets |-> ""]

\* the handler of addAliasesChangesListener: the line comment of "ov"
CommentKeywordHandler(conf, params) == [conf EXCEPT !.lineComment = params]

OnCommentKeywordChanged(c, s) ==
    /\ Live(c)
    /\ CommentKeywordChanged \in handlers[c]
    /\ langConf' = CommentKeywordHandler(langConf, s)
    /\ steps' = <<>>
    /\ UNCHANGED pageVars
    /\ ev' = Event(CommentKeywordChanged, c, <<c>>, s)
    /\ UNCHANGED <<lifecycleVars, bridgeVars, editorVars, output, tokensProvider,
                   store, dom, sentOn, lastSent>>

\* --------------------------------------------------------- specifications
\* a createLspClient that registers the document-change listener itself
ListenersAtConstructionEager == <<0>>
\* createLspClient registers no listener: all are registered by the
\* connection provider
ListenersAtConstruction == <<>>

\* createLspClient has run: editors held, services installed, socket created,
\* no connection yet
Init ==
    /\ nConn = 0
    /\ status = [c \in Conns |-> "none"]
    /\ starts = [c \in Conns |-> 0]
    /\ disposed = [c \in Conns |-> 0]
    /\ currentConnection = 0
    /\ handlers = [c \in Conns |-> {}]
    /\ docListeners = ListenersAtConstruction
    /\ onchange = [k \in Keys |-> 0]
    /\ schemaText = "t1"
    /\ ovText = "t1"
    /\ ovUri = "u1"
    /\ \E m \in BOOLEAN : output = [hasModel |-> m, text |-> "", lang |-> <<"p">>]
    /\ \E cu \in StoredAtStart("culture"), la \in StoredAtStart("language") :
           store = [Schema |-> "", Code |-> "", Culture |-> cu, Language |-> la]
    /\ \E pc \in BOOLEAN, pl \in BOOLEAN :
           dom = [k \in Keys |-> [present |-> IF k = "culture" THEN pc ELSE pl, sel |-> 1]]
    /\ tokensProvider = <<>>
    /\ langConf = [lineComment |-> "", brackets |-> "()"]
    /\ ev = NoEvent
    /\ steps = <<>>
    /\ sentOn = [c \in Conns |-> {}]
    /\ lastSent = [k \in Keys |-> NeverSent]
    /\ location = [protocol |-> "http:", pathname |-> <<"/">>]
    /\ url = CreateUrl(location, OvLanguagePath)

Lifecycle ==
    \/ OnConnection
    \/ \E c \in Conns : OnReady(c)
    \/ \E c \in Conns : OnClose(c)

Outbound ==
    \/ \E t \in Texts : ChangeSchema(t)
    \/ \E t \in Texts : ChangeCode(t)
    \/ \E u \in Uris : SetPrimaryModel(u)
    \/ \E k \in Keys, i \in 1..2 : ChangeControl(k, i)

Inbound ==
    \/ \E c \in Conns, p \in GeneratedCodeParams : OnGeneratedCode(c, p)
    \/ \E c \in Conns, j \in BOOLEAN, l \in EntryLists(MaxEntries) :
           OnSemanticHighlighting(c, [json |-> j, entries |-> IF j THEN l ELSE <<>>])
    \/ \E c \in Conns, s \in Keywords : OnCommentKeywordChanged(c, s)

\* the whole bridge; SpecOutbound and SpecInbound below are its two halves,
\* each small enough to be explored exhaustively
Next == Lifecycle \/ Outbound \/ Inbound
Spec == Init /\ [][Next]_vars

\* the session lifecycle with the editor and control events
NextOutbound == Lifecycle \/ Outbound
SpecOutbound == Init /\ [][NextOutbound]_vars

\* the session lifecycle with the server's notifications; the store starts
\* with a culture the control offers and a language it does not offer
InitInbound == Init /\ store["Culture"] = "en" /\ store["Language"] = "Rust"
NextInbound == Lifecycle \/ Inbound
SpecInbound == InitInbound /\ [][NextInbound]_vars

\* the page is loaded at any location and createLspClient has not yet
\* created the web socket
InitUrl ==
    /\ nConn = 0
    /\ status = [c \in Conns |-> "none"]
    /\ starts = [c \in Conns |-> 0]
    /\ disposed = [c \in Conns |-> 0]
    /\ currentConnection = 0
    /\ handlers = [c \in Conns |-> {}]
    /\ docListeners = <<>>
    /\ onchange = [k \in Keys |-> 0]
    /\ schemaText = "t1"
    /\ ovText = "t1"
    /\ ovUri = "u1"
    /\ output = [hasModel |-> TRUE, text |-> "", lang |-> <<"p">>]
    /\ store = [Schema |-> "", Code |-> "", Culture |-> "en", Language |-> "Node"]
    /\ dom = [k \in Keys |-> [present |-> TRUE, sel |-> 1]]
    /\ tokensProvider = <<>>
    /\ langConf = [lineComment |-> "", brackets |-> "()"]
    /\ ev = NoEvent
    /\ steps = <<>>
    /\ sentOn = [c \in Conns |-> {}]
    /\ lastSent = [k \in Keys |-> NeverSent]
    /\ location \in Locations
    /\ url = NoUrl
NextUrl == CreateWebSocket
SpecUrl == InitUrl /\ [][NextUrl]_vars

\* ------------------------------------------------------------ properties
SendsNamed(s, name) == SelectSeq(s, LAMBDA x : x.act = "send" /\ x.name = name)
Payload(x) == [name |-> x.name, value |-> x.value, uri |-> x.uri]

\* C1: once a session has been established, every change of the schema
\* surface issues exactly one schema-changed notification and exactly one
\* write of the changed text under Schema.
C1_SchemaChangeOnce ==
    (ev.kind = "changeSchema" /\ nConn >= 1) =>
        /\ Len(Sends(steps)) = 1
        /\ Sends(steps)[1].name = SchemaChanged
        /\ Writes(steps) = <<Write("Schema", ev.text)>>

\* C2: no listener registered during the setup of a session runs after that
\* session's close callback has run (the three notification handlers and the
\* workspace document-change listener).
C2_NoListenerAfterClose ==
    ev.kind \in {SemanticHighlighting, GeneratedCode, CommentKeywordChanged,
                 "changeSchema", "changeCode"} =>
        \A i \in 1..Len(ev.fired) : status[ev.fired[i]] # "closed"

\* C3: once a session has been established, every change of the primary
\* surface sends nothing and writes the changed text under Code exactly once.
C3_CodeChangeOnce ==
    (ev.kind = "changeCode" /\ nConn >= 1) =>
        /\ Sends(steps) = <<>>
        /\ Writes(steps) = <<Write("Code", ev.text)>>

\* C4: once a session has been established, a change event of the culture
\* (language) control writes the selected value under Culture (Language) and
\* sends exactly one culture-changed (language-changed) notification with
\* that value and the primary document's uri, and sends nothing else.
C4_ControlChange ==
    \A k \in Keys :
        (ev.kind = "change:" \o k /\ nConn >= 1) =>
            /\ ev.text = Options(k)[dom[k].sel]
            /\ Len(Sends(steps)) = 1
            /\ Payload(Sends(steps)[1]) =
                   [name |-> Method(k), value |-> ev.text, uri |-> ovUri]
            /\ Writes(steps) = <<Write(StoreKey(k), ev.text)>>
            /\ store[StoreKey(k)] = ev.text

C4_Witness ==
    /\ ev.kind = "change:culture"
    /\ nConn = 2
    /\ ev.text = "de"
    /\ SchemaChanged \in sentOn[2]

C6_OneSessionPerConnection ==
    /\ \A c \in Conns :
           /\ starts[c] = (IF c <= nConn THEN 1 ELSE 0)
           /\ disposed[c] = (IF status[c] = "closed" THEN 1 ELSE 0)
           /\ (status[c] = "none") <=> (c > nConn)
    /\ Cardinality({c \in Conns : starts[c] > 0 /\ disposed[c] = 0}) <= 1

C6_Witness ==
    /\ nConn = 2
    /\ status[1] = "closed"
    /\ status[2] = "ready"
    /\ ev.kind = "changeSchema"

\* C7: every schema-changed notification carries the schema editor's text
\* at the moment of the send and the primary document's current uri.
C7_SchemaPayloadCurrent ==
    \A i \in 1..Len(steps) :
        (steps[i].act = "send" /\ steps[i].name = SchemaChanged) =>
            steps[i].value = schemaText /\ steps[i].uri = ovUri

C7_Witness ==
    /\ ev.kind = "changeSchema"
    /\ SendsNamed(steps, SchemaChanged) # <<>>
    /\ schemaText = "t1"
    /\ ovUri = "u2"

\* C8: at every session establishment, for culture and for language, the
\* stored value is sent exactly once with the primary document's uri, also
\* when the control is absent; a control changes only when it is present and
\* offers the stored value, which then is the selected option.
C8_OptionsSentAtStart ==
    ev.kind = "connection" =>
        \A k \in Keys :
            /\ Len(SendsNamed(steps, Method(k))) = 1
            /\ Payload(SendsNamed(steps, Method(k))[1]) =
                   [name |-> Method(k), value |-> store[StoreKey(k)], uri |-> ovUri]
            /\ (dom[k].present /\ \E i \in 1..Len(Options(k)) : Options(k)[i] = store[StoreKey(k)])
                   => Options(k)[dom[k].sel] = store[StoreKey(k)]

\* toLowerCase of the language names the server sends, written out
LowerCased ==
    (<<"J", "a">> :> <<"j", "a">>) @@ (<<"j", "a">> :> <<"j", "a">>)
    @@ (<<"C", "S">> :> <<"c", "s">>)

\* C9: a well-formed generated-code notification sets the output model's
\* text to `implementation` and its language to the lower-cased `language`;
\* without a model the output editor is unchanged; the primary and schema
\* surfaces, the token classifier and the shared store never change.
C9_GeneratedCode ==
    [][(ev'.kind = GeneratedCode /\ ev'.json /\ ev'.hasLanguage) =>
          /\ IF output.hasModel
             THEN output' = [hasModel |-> TRUE, text |-> ev'.implementation,
                             lang |-> LowerCased[ev'.language]]
             ELSE output' = output
          /\ UNCHANGED <<schemaText, ovText, ovUri, tokensProvider, store>>]_vars

C9_Witness ==
    /\ ev.kind = GeneratedCode
    /\ ev.language = <<"C", "S">>
    /\ output = [hasModel |-> TRUE, text |-> "i2", lang |-> <<"c", "s">>]

\* the received entries whose pattern is not empty, by position
NonEmptyAt(entries) == {i \in 1..Len(entries) : entries[i][1] # ""}
NthNonEmpty(entries, n) ==
    CHOOSE i \in NonEmptyAt(entries) :
        Cardinality({j \in NonEmptyAt(entries) : j <= i}) = n

\* C10: after a semantic-highlighting notification the installed classifier
\* table is exactly the received entries with a non-empty pattern, in their
\* received order, each pattern compiled and paired with its class; nothing
\* of an earlier table remains.
C10_ClassifierTable ==
    (ev.kind = SemanticHighlighting /\ ev.json) =>
        /\ Len(tokensProvider) = Cardinality(NonEmptyAt(ev.entries))
        /\ \A n \in 1..Len(tokensProvider) :
               tokensProvider[n] =
                   <<[source |-> ev.entries[NthNonEmpty(ev.entries, n)][1], flags |-> "g"],
                     ev.entries[NthNonEmpty(ev.entries, n)][2]>>

C10_Witness ==
    /\ ev.kind = SemanticHighlighting
    /\ ev.entries = <<(<<"", "k1">>), (<<"p2", "k2">>)>>
    /\ Len(tokensProvider) = 1

DuplicateSlashAt(path) == {i \in 1..(Len(path) - 1) : path[i] = "/" /\ path[i + 1] = "/"}
NoSlashes(path) == SelectSeq(path, LAMBDA t : t # "/")
UrlCreated == url # NoUrl

\* C11 as stated: wss exactly for an https: page, the path ends with
\* /ovLanguage after the page path, and the path has no duplicate slashes.
C11_UrlNoDuplicateSlash ==
    UrlCreated =>
        /\ (url.protocol = "wss") <=> (location.protocol = "https:")
        /\ url.protocol \in {"ws", "wss"}
        /\ Len(url.path) >= 2
        /\ SubSeq(url.path, Len(url.path) - 1, Len(url.path)) = OvLanguagePath
        /\ NoSlashes(url.path) = NoSlashes(location.pathname) \o <<"ovLanguage">>
        /\ DuplicateSlashAt(url.path) = {}

\* C11 amended: as above, but a duplicate slash may remain where it
\* directly follows a scheme ("http:") that the page path contains.
C11_UrlNormalized ==
    UrlCreated =>
        /\ (url.protocol = "wss") <=> (location.protocol = "https:")
        /\ url.protocol \in {"ws", "wss"}
        /\ Len(url.path) >= 2
        /\ SubSeq(url.path, Len(url.path) - 1, Len(url.path)) = OvLanguagePath
        /\ NoSlashes(url.path) = NoSlashes(location.pathname) \o <<"ovLanguage">>
        /\ \A i \in DuplicateSlashAt(url.path) : i > 1 /\ url.path[i - 1] = "http:"
        /\ \A i \in 1..(Len(url.path) - 2) :
               ~(url.path[i] = "/" /\ url.path[i + 1] = "/" /\ url.path[i + 2] = "/")

C11_Witness ==
    /\ location = [protocol |-> "https:", pathname |-> <<"/", "a", "/", "/">>]
    /\ url = [protocol |-> "wss", host |-> "localhost", port |-> 3010,
              path |-> <<"/", "a", "/", "ovLanguage">>]

Malformed(e) ==
    \/ e.kind \in {GeneratedCode, SemanticHighlighting} /\ ~e.json
    \/ e.kind = GeneratedCode /\ e.json /\ ~e.hasLanguage

\* C13: a generated-code or semantic-highlighting notification that is not
\* JSON, or a generated-code object without `language`, makes the handler
\* fault once, before any mutation: the output model and the token
\* classifier are as before, and the handlers stay registered on the live
\* connection, so later notifications are still handled.
C13_MalformedPayload ==
    [][Malformed(ev') =>
          /\ steps' = <<Fault(ev'.conn, ev'.kind)>>
          /\ output' = output
          /\ tokensProvider' = tokensProvider
          /\ langConf' = langConf
          /\ handlers' = handlers
          /\ status' = status
          /\ ev'.kind \in handlers'[ev'.conn]
          /\ status'[ev'.conn] \in {"starting", "ready"}]_vars

C13_Witness ==
    /\ ev.kind = GeneratedCode
    /\ ev.json /\ ~ev.hasLanguage
    /\ ev.implementation = "i2"
    /\ steps = <<Fault(ev.conn, GeneratedCode)>>
    /\ output = [hasModel |-> TRUE, text |-> "i1", lang |-> <<"j", "a">>]
    /\ tokensProvider # <<>>

\* C14: no notification is sent on a connection whose close callback has run.
C14_NoSendOnClosed ==
    \A i \in 1..Len(steps) :
        steps[i].act = "send" => status[steps[i].conn] # "closed"

\* C15: before the first connection no event has an effect through the
\* bridge: nothing is sent, no key of the shared store is written, no
\* listener and no onchange handler exists.
C15_NothingBeforeConnection ==
    /\ [](nConn = 0 =>
            /\ steps = <<>>
            /\ currentConnection = 0
            /\ docListeners = <<>>
            /\ \A k \in Keys : onchange[k] = 0 /\ lastSent[k] = NeverSent
            /\ \A c \in Conns : handlers[c] = {} /\ sentOn[c] = {})
    /\ [][nConn' = 0 => store' = store]_vars

C15_Witness ==
    /\ nConn = 0
    /\ ev.kind = "change:culture"
    /\ schemaText = "t2"
    /\ ovText = "t2"
    /\ store["Schema"] = "" /\ store["Code"] = ""

\* C16: once a session has been established, for each control that is
\* present, the value sent last for it was sent on the current connection
\* and equals the stored value, whether or not the control offers that value.
C16_SentEqualsStored ==
    \A k \in Keys :
        (nConn >= 1 /\ dom[k].present) =>
            /\ lastSent[k].conn = currentConnection
            /\ lastSent[k].value = store[StoreKey(k)]

C16_Witness ==
    /\ nConn >= 1
    /\ dom["culture"].present
    /\ store["Culture"] = "fr"
    /\ lastSent["culture"] = [conn |-> currentConnection, value |-> "fr"]
    /\ Options("culture")[dom["culture"].sel] = "de"
    /\ ev.kind = "changeSchema"

====
